---- MODULE Spec2Model ----
(***************************************************************************)
(* Structured response acquisition of thesis_foqee:                        *)
(*   src/llm_services/send_prompt.py  (send_prompt, process_response,      *)
(*                                     validate_response_with_model)       *)
(*   src/utils/messages.py            (add_message, classify_basemodel,    *)
(*                                     save_messages)                      *)
(* One send_prompt call is a sequence of steps separated by the blocking   *)
(* remote requests: Call (lines 111-131), FirstAttempt (134-162, 177-180)  *)
(* and RetryAttempt (164-177, one pass of the loop). SpecArchive is the     *)
(* archive of messages.py on its own, one add_message call per step.       *)
(***************************************************************************)
EXTENDS Integers, Sequences, FiniteSets, TLC

\* ------------------------------------------------------------------ bounds
\* largest value of MAX_TRIES_STRUCTURED_OUTPUT that is tried
MaxTries == 2
\* longest caller message list
MaxMsgs == 1
\* most tool calls in one reply
MaxToolCalls == 2

\* ------------------------------------------------------------ python values
\* None, a str, and the falsiness test python applies in "if result:"
NoneVal == <<"None">>
Str(t) == <<"str", t>>
Truthy(v) == v # NoneVal /\ v # Str("")

\* ----------------------------------------------------------------- schemas
NoSchema == "None"
NoInfoModel == "NoInfoModel"
\* the schemas the callers pass: one per archive category, one of them of the
\* extraction family
Schemas == {"ChecklistModel", "IdentifyTablesModel", "PurposeModel", "RubricQuestionModel"}
\* send_prompt.py:117-120, the classes of the extraction ("ISO") family: the
\* classes of the issubclass tuple and RequirementIdModel, a subclass of ClauseModel
IsoModels ==
    {"NoInfoModel", "TableModel", "ClauseModel", "ClauseSummaryModel",
     "IdentifyExternalIdsModel", "IdentifyTablesModel", "IdentifyClausesModel",
     "IdentifyInformationModel", "RequirementIdModel"}
bool_iso_model(bm) == bm # NoSchema /\ bm \in IsoModels
\* the tools advertised for a call, send_prompt.py:116,122-123
tools(bm) ==
    IF bm = NoSchema THEN {}
    ELSE IF bool_iso_model(bm) THEN {bm, NoInfoModel} ELSE {bm}

\* ---------------------------------------------------------------- messages
\* prompt_system_role(), a fixed string
PersonaContent == <<"prompt_system_role">>
PersonaMessage == [role |-> "system", content |-> PersonaContent]
\* what a caller may put in its list: a well-formed message, one without
\* 'content', one without 'role'
WellFormedMsg == [role |-> "user", content |-> <<"prompt">>]
CallerMsgs == {WellFormedMsg, [role |-> "user"], [content |-> <<"prompt">>]}
RECURSIVE SeqsUpTo(_, _)
SeqsUpTo(S, n) ==
    IF n = 0 THEN {<<>>}
    ELSE LET shorter == SeqsUpTo(S, n - 1)
         IN  shorter \cup {Append(s, x) : s \in {t \in shorter : Len(t) = n - 1}, x \in S}
CallerLists == SeqsUpTo(CallerMsgs, MaxMsgs)
\* MAX_TRIES_STRUCTURED_OUTPUT: unset (<<>>) or an integer (<<n>>); the other
\* settings of lines 112-115 (API key, model, temperature) are taken as present
EnvMaxTries == {<<>>} \cup {<<n>> : n \in -1..MaxTries}

\* ----------------------------------------------------------------- replies
\* the JSON argument blobs of a tool call, by what they validate against:
\*   "p_ok"    conforms to the call's base_model
\*   "n_true"  {"no_information_found": true}
\*   "n_false" {"no_information_found": false}
\*   "bad"     conforms to nothing
Payloads == {"p_ok", "n_true", "n_false", "bad"}
\* message.content of a reply: None, "" or a text
Texts == {NoneVal, Str(""), Str("text")}
\* the tool calls the service can make: a call of an advertised tool, with a payload
\* meant for it that conforms or does not
ToolCalls(bm) ==
    [name : {bm}, arguments : {"p_ok", "bad"}]
      \cup (IF bm \in IsoModels
            THEN [name : {NoInfoModel}, arguments : {"n_true", "n_false", "bad"}]
            ELSE {})
\* chat.choices[0].message of a reply (no tools are sent without a schema)
Replies(bm) ==
    [content : Texts,
     tool_calls : IF bm = NoSchema THEN {<<>>} ELSE SeqsUpTo(ToolCalls(bm), MaxToolCalls)]

\* ------------------------------------------------- validate_response_with_model
Validates(payload, model) ==
    IF model = NoInfoModel THEN payload \in {"n_true", "n_false"}
    ELSE payload = "p_ok"
validate_response_with_model(payload, model) ==
    IF Validates(payload, model) THEN <<model, payload>> ELSE NoneVal

\* ------------------------------------------------------------------ archive
Classifications ==
    {"checklist_generation", "content_segmentation", "context_generation",
     "evaluation", "unclassified"}
Buckets ==
    {"messages_unclassified", "messages_checklist_generation",
     "messages_content_segmentation", "messages_context_generation",
     "messages_evaluation"}
Delimiter == <<"#", <<"delimiter">>>>
\* messages.py:74-93
classify_basemodel(bm) ==
    IF bm \in {"ChecklistItem", "ChecklistModel"} THEN "checklist_generation"
    ELSE IF bm \in {"TopicslistModel", "RequirementDescriptionModel", "TopicModel",
                    "NoInfoModel", "IdentifyInformationModel", "TableModel",
                    "IdentifyTablesModel", "ClauseModel", "ClauseSummaryModel",
                    "IdentifyClausesModel", "RequirementIdModel",
                    "IdentifyExternalIdsModel"} THEN "content_segmentation"
    ELSE IF bm \in {"DescriptionModel", "PurposeModel", "TermModel", "TermListModel",
                    "DisambiguationEntryModel", "DisambiguationModel",
                    "AbbreviationModel", "AbbreviationListModel", "ConceptsModel",
                    "WorkProductContextModel"} THEN "context_generation"
    ELSE IF bm \in {"RubricQuestionModel", "RubricRequirementModel",
                    "RubricChecklistModel"} THEN "evaluation"
    ELSE "unclassified"
\* messages.py:46-70, the list an entry is appended to and the list the
\* delimiter of a "SYSTEM" entry is appended to
EntryBucket(c) ==
    CASE c = "checklist_generation" -> "messages_checklist_generation"
      [] c = "content_segmentation" -> "messages_content_segmentation"
      [] c = "context_generation" -> "messages_context_generation"
      [] OTHER -> "messages_unclassified"
DelimiterBucket(c) ==
    CASE c = "checklist_generation" -> "messages_checklist_generation"
      [] c = "content_segmentation" -> "messages_content_segmentation"
      [] c = "context_generation" -> "messages_context_generation"
      [] c = "evaluation" -> "messages_evaluation"
      [] OTHER -> "messages_unclassified"
\* messages.py:97-108, the list save_messages writes and the folder it writes to
SavedBucket(c) ==
    CASE c = "checklist_generation" -> "messages_checklist_generation"
      [] c = "content_segmentation" -> "messages_content_segmentation"
      [] c = "context_generation" -> "messages_context_generation"
      [] OTHER -> "messages_unclassified"
FilePath(c) == <<SavedBucket(c), c>>
Files == {FilePath(c) : c \in Classifications}
\* messages.py:116-126: an entry "role: content" is split at its first ": " and
\* written as a block "Role: role / Message: content" (the entries are kept as the
\* two parts the split gives back: no role of the program holds ": ")
Render(entry) == <<"Role: ", entry[1], "Message:", entry[2]>>
RenderAll(list) == [i \in 1..Len(list) |-> Render(list[i])]
\* messages.py:95-126: the whole list is written again; a file is <<>> until it
\* is written and <<its blocks>> after
save_messages(arch, c) ==
    [arch EXCEPT !.files[FilePath(c)] = <<RenderAll(arch.buckets[SavedBucket(c)])>>]
\* an add_message that puts the newest entry first
add_messageNewestFirst(arch, role, content, bm) ==
    LET c == IF bm # NoSchema THEN classify_basemodel(bm) ELSE "unclassified"
        a1 == [arch EXCEPT !.buckets[EntryBucket(c)] = <<<<role, content>>>> \o @]
    IN  save_messages(a1, c)
\* messages.py:37-71
add_message(arch, role, content, bm) ==
    LET c == IF bm # NoSchema THEN classify_basemodel(bm) ELSE "unclassified"
        a1 == [arch EXCEPT !.buckets[EntryBucket(c)] = Append(@, <<role, content>>)]
        a2 == IF role = "SYSTEM"
              THEN [a1 EXCEPT !.buckets[DelimiterBucket(c)] = Append(@, Delimiter)]
              ELSE a1
    IN  save_messages(a2, c)
RECURSIVE add_messages(_, _, _)
add_messages(arch, entries, bm) ==
    IF entries = <<>> THEN arch
    ELSE add_messages(add_message(arch, entries[1][1], entries[1][2], bm), Tail(entries), bm)

\* --------------------------------------------------------- process_response
\* a history that leaves out the corrective message
HistoryNoGuidance(msgs, last) ==
    LET Kept(m) == m.content[1] # "guidance"
        kept == SelectSeq(msgs, Kept)
    IN  [i \in 1..Len(kept) |-> <<kept[i].role, kept[i].content>>] \o <<<<"system", last>>>>
\* a history that leaves out the first message of the request, the persona
HistoryCallerOnly(msgs, last) ==
    [i \in 1..(Len(msgs) - 1) |-> <<msgs[i + 1].role, msgs[i + 1].content>>]
      \o <<<<"system", last>>>>
\* the conversation history stored on success, send_prompt.py:75-77, 85-87, 92-94
History(msgs, last) == [i \in 1..Len(msgs) |-> <<msgs[i].role, msgs[i].content>>] \o <<<<"system", last>>>>
\* a lookup that takes the last tool call named NoInfoModel instead of the first
NoInfoArgumentsLast(tool_calls) ==
    LET named == {i \in 1..Len(tool_calls) : tool_calls[i].name = NoInfoModel}
    IN  IF named = {} THEN NoneVal
        ELSE Str(tool_calls[CHOOSE i \in named : \A j \in named : i >= j].arguments)
\* send_prompt.py:65-69
NoInfoArguments(tool_calls) ==
    LET named == {i \in 1..Len(tool_calls) : tool_calls[i].name = NoInfoModel}
    IN  IF named = {} THEN NoneVal
        ELSE Str(tool_calls[CHOOSE i \in named : \A j \in named : i <= j].arguments)
\* what a block of process_response hands back: the value it returns and the
\* entries it archives, or that control goes on to the next block
Returned(v, log) == [returns |-> TRUE, result |-> v, log |-> log]
FallsThrough == [returns |-> FALSE, result |-> NoneVal, log |-> <<>>]
\* a NoInfoModel block that stores the conversation and "Nothing found" although the
\* payload of the NoInfoModel call does not conform
NoInfoBranchStoresInvalid(reply, msgs, bm, iso) ==
    LET tool_response == IF bm # NoSchema /\ iso /\ Len(reply.tool_calls) > 0
                         THEN NoInfoArguments(reply.tool_calls) ELSE NoneVal
        validated_response == IF Truthy(tool_response)
                              THEN validate_response_with_model(tool_response[2], NoInfoModel)
                              ELSE NoneVal
    IN  IF Truthy(validated_response)
        THEN Returned(validated_response, History(msgs, <<"Nothing found">>))
        ELSE IF Truthy(tool_response)
        THEN Returned(NoneVal, History(msgs, <<"Nothing found">>))
        ELSE FallsThrough
\* a process_response without the block of lines 63-78
NoInfoBranchIgnored(reply, msgs, bm, iso) == FallsThrough
\* send_prompt.py:63-78, the NoInfoModel call of an extraction-family schema
NoInfoBranch(reply, msgs, bm, iso) ==
    LET tool_response == IF bm # NoSchema /\ iso /\ Len(reply.tool_calls) > 0
                         THEN NoInfoArguments(reply.tool_calls) ELSE NoneVal
        validated_response == IF Truthy(tool_response)
                              THEN validate_response_with_model(tool_response[2], NoInfoModel)
                              ELSE NoneVal
    IN  IF Truthy(validated_response)
        THEN Returned(validated_response, History(msgs, <<"Nothing found">>))
        ELSE FallsThrough
\* a failed validation that goes on to the raw text instead of returning None
SchemaBranchFallsThrough(reply, msgs, bm) ==
    LET validated_response == IF Len(reply.tool_calls) > 0
                              THEN validate_response_with_model(reply.tool_calls[1].arguments, bm)
                              ELSE NoneVal
    IN  IF Truthy(validated_response)
        THEN Returned(validated_response, History(msgs, validated_response))
        ELSE FallsThrough
\* a failed validation that stores the conversation all the same
SchemaBranchStoresFailure(reply, msgs, bm) ==
    LET validated_response == IF Len(reply.tool_calls) > 0
                              THEN validate_response_with_model(reply.tool_calls[1].arguments, bm)
                              ELSE NoneVal
    IN  IF Truthy(validated_response)
        THEN Returned(validated_response, History(msgs, validated_response))
        ELSE Returned(NoneVal, History(msgs, NoneVal))
\* a validation of the last tool call instead of the first
SchemaBranchLastCall(reply, msgs, bm) ==
    LET validated_response == IF Len(reply.tool_calls) > 0
                              THEN validate_response_with_model(
                                       reply.tool_calls[Len(reply.tool_calls)].arguments, bm)
                              ELSE NoneVal
    IN  IF Truthy(validated_response)
        THEN Returned(validated_response, History(msgs, validated_response))
        ELSE Returned(NoneVal, <<>>)
\* send_prompt.py:79-89, the first tool call against the schema of the call
SchemaBranch(reply, msgs, bm) ==
    LET validated_response == IF Len(reply.tool_calls) > 0
                              THEN validate_response_with_model(reply.tool_calls[1].arguments, bm)
                              ELSE NoneVal
    IN  IF Truthy(validated_response)
        THEN Returned(validated_response, History(msgs, validated_response))
        ELSE Returned(NoneVal, <<>>)
\* send_prompt.py:90-96, the raw text of a call without a schema
RawBranch(reply, msgs) ==
    IF Truthy(reply.content)
    THEN Returned(reply.content, History(msgs, reply.content))
    ELSE Returned(NoneVal, <<>>)
\* send_prompt.py:48-96: the value returned and the entries archived
process_response(reply, msgs, bm, iso) ==
    LET b1 == NoInfoBranch(reply, msgs, bm, iso)
        b2 == IF bm # NoSchema THEN SchemaBranch(reply, msgs, bm) ELSE FallsThrough
    IN  IF b1.returns THEN b1
        ELSE IF b2.returns THEN b2
        ELSE RawBranch(reply, msgs)

\* ---------------------------------------------------------------- guidance
\* a guidance text without the text generated before
guidance_messageNoPrevious(bm, iso, reply) ==
    <<"guidance", "schema", bm>>
      \o (IF iso THEN <<"NoInfoModel hint">> ELSE <<>>)
\* send_prompt.py:147-161: the instruction, the schema, the NoInfoModel hint of
\* the extraction family, the text generated before (when there is one)
guidance_message(bm, iso, reply) ==
    <<"guidance", "schema", bm>>
      \o (IF iso THEN <<"NoInfoModel hint">> ELSE <<>>)
      \o (IF Truthy(reply.content) THEN <<"previous", reply.content[2]>> ELSE <<>>)
\* a first failure after which the guidance is not put on the list
WithGuidanceForgotten(msgs, bm, reply) == msgs
\* send_prompt.py:162
WithGuidance(msgs, bm, reply) ==
    Append(msgs, [role |-> "system",
                  content |-> guidance_message(bm, bool_iso_model(bm), reply)])
\* a retry controller that also runs for a call without a schema
RetryNeededAlways(bm) == TRUE
\* send_prompt.py:145, "if base_model:"
RetryNeeded(bm) == bm # NoSchema
\* a loop that never runs out of passes
RetriesLeftForever(made, mt) == TRUE
\* a loop that runs once more than max_tries
RetriesLeftOneMore(made, mt) == made <= mt
\* send_prompt.py:164, "for attempt in range(max_tries)": a pass is left
RetriesLeft(made, mt) == made < mt
\* a format check that looks at 'role' only
MessageOkRoleOnly(m) == "role" \in DOMAIN m
\* send_prompt.py:127
MessageOk(m) == \A k \in {"role", "content"} : k \in DOMAIN m
Malformed(msgs) == \E i \in 1..Len(msgs) : ~MessageOk(msgs[i])

\* the exceptions send_prompt ends with
ConfigError == "TypeError: int() argument must be a string, a bytes-like object or a real number, not 'NoneType'"
MalformedMessageError == "ValueError: Each message must have 'role' and 'content'."
ExhaustedRetriesError == "ValueError: No structured response provided after multiple attempts."
RemoteInvocationError == "OpenAIError"

\* -------------------------------------------------------------------- state
VARIABLES
    pc,          \* "idle", "first", "retry", "done": where the call stands
    base_model,  \* the schema of the call, or NoSchema
    env,         \* MAX_TRIES_STRUCTURED_OUTPUT in the environment of the call
    max_tries,   \* int(os.getenv("MAX_TRIES_STRUCTURED_OUTPUT"))
    messages,    \* the caller's list, changed in place
    chat,        \* <<>> or <<the last reply>>
    attempt,     \* passes of the loop of line 164 that have been made
    result,      \* the value returned
    outcome,     \* "none", "returned", "raised"
    error,       \* the exception raised, "none" when there is none
    requests,    \* the message lists of the remote requests of this call, in order
    archive,     \* [buckets, files]: the module-level lists of messages.py and the files
    callArchive, \* the archive when the call began
    run          \* the run of main.py around the calls: see InitRun
vars == <<pc, base_model, env, max_tries, messages, chat, attempt, result, outcome, error,
          requests, archive, callArchive, run>>

EmptyArchive == [buckets |-> [b \in Buckets |-> <<>>], files |-> [f \in Files |-> <<>>]]

\* no run of main.py is looked at
NoRun == [phase |-> "none"]

InitCall ==
    /\ pc = "idle"
    /\ base_model = NoSchema
    /\ env = <<>>
    /\ max_tries = 0
    /\ messages = <<>>
    /\ chat = <<>>
    /\ attempt = 0
    /\ result = NoneVal
    /\ outcome = "none"
    /\ error = "none"
    /\ requests = <<>>
    /\ archive = EmptyArchive
    /\ callArchive = archive
Init ==
    /\ InitCall
    /\ run = NoRun

Raise(e) ==
    /\ pc' = "done"
    /\ outcome' = "raised"
    /\ error' = e
    /\ result' = NoneVal
ReturnValue(v) ==
    /\ pc' = "done"
    /\ outcome' = "returned"
    /\ error' = "none"
    /\ result' = v

\* a persona message that is put at the end of the list
WithPersonaAtEnd(msgs) == Append(msgs, PersonaMessage)
\* send_prompt.py:131, messages.insert(0, persona)
WithPersona(msgs) == <<PersonaMessage>> \o msgs
\* a remote error that is swallowed: the call stays where it is and asks again
RemoteErrorRetried ==
    /\ error' = RemoteInvocationError
    /\ UNCHANGED <<pc, outcome, result, chat, messages, attempt, archive>>
\* send_prompt.py:134, 166 and 182-185: the remote request raises OpenAIError, the
\* except clause prints it and raises it again
RemoteError ==
    /\ Raise(RemoteInvocationError)
    /\ UNCHANGED <<chat, messages, attempt, archive>>

\* send_prompt.py:111-131: configuration, message format, persona
Call ==
    /\ pc = "idle"
    /\ \E msgs \in CallerLists, bm \in Schemas \cup {NoSchema}, e \in EnvMaxTries :
          /\ base_model' = bm
          /\ env' = e
          /\ callArchive' = archive
          /\ IF e = <<>>
             THEN /\ Raise(ConfigError)
                  /\ messages' = msgs
                  /\ UNCHANGED max_tries
             ELSE /\ max_tries' = e[1]
                  /\ IF Malformed(msgs)
                     THEN /\ Raise(MalformedMessageError)
                          /\ messages' = msgs
                     ELSE /\ messages' = WithPersona(msgs)
                          /\ pc' = "first"
                          /\ UNCHANGED <<outcome, error, result>>
    /\ UNCHANGED <<chat, attempt, requests, archive, run>>

\* the part of an attempt after the request: process_response, "if result: return"
\* and, when the result is falsy, what the caller of this operator does next
Attempted(reply, failed) ==
    LET pr == process_response(reply, messages, base_model, bool_iso_model(base_model))
    IN  /\ chat' = <<reply>>
        /\ archive' = add_messages(archive, pr.log, base_model)
        /\ IF Truthy(pr.result)
           THEN /\ ReturnValue(pr.result)
                /\ UNCHANGED <<messages, attempt>>
           ELSE failed

\* send_prompt.py:133-162 and, when no pass of the loop follows, 177 or 180
FirstAttempt ==
    /\ pc = "first"
    /\ requests' = Append(requests, messages)
    /\ \/ RemoteError
       \/ \E reply \in Replies(base_model) :
             Attempted(reply,
                IF RetryNeeded(base_model)
                THEN /\ messages' = WithGuidance(messages, base_model, reply)
                     /\ attempt' = 0
                     /\ IF RetriesLeft(0, max_tries)
                        THEN /\ pc' = "retry"
                             /\ UNCHANGED <<outcome, error, result>>
                        ELSE Raise(ExhaustedRetriesError)
                ELSE /\ ReturnValue(reply.content)
                     /\ UNCHANGED <<messages, attempt>>)
    /\ UNCHANGED <<base_model, env, max_tries, callArchive, run>>

\* send_prompt.py:164-177: one pass of the loop and, after the last one, the raise
RetryAttempt ==
    /\ pc = "retry"
    /\ RetriesLeft(attempt, max_tries)
    /\ requests' = Append(requests, messages)
    /\ \/ RemoteError
       \/ \E reply \in Replies(base_model) :
             Attempted(reply,
                /\ attempt' = attempt + 1
                /\ UNCHANGED messages
                /\ IF RetriesLeft(attempt + 1, max_tries)
                   THEN UNCHANGED <<pc, outcome, error, result>>
                   ELSE Raise(ExhaustedRetriesError))
    /\ UNCHANGED <<base_model, env, max_tries, callArchive, run>>

Next == Call \/ FirstAttempt \/ RetryAttempt

Spec == Init /\ [][Next]_vars

\* send_prompt is synchronous code: once called it goes on to the request, and
\* every request that was issued returns a reply or fails
SpecFair == Spec /\ WF_vars(FirstAttempt) /\ WF_vars(RetryAttempt)

\* ------------------------------------------------- the archive on its own
\* the entries of the archive lists, taken together
RECURSIVE SumLen(_, _)
SumLen(arch, bs) ==
    IF bs = {} THEN 0
    ELSE LET b == CHOOSE x \in bs : TRUE
         IN  Len(arch.buckets[b]) + SumLen(arch, bs \ {b})
\* most entries the archive lists hold together
MaxEntries == 3
\* what process_response hands to add_message, send_prompt.py:75-77, 85-87, 92-94:
\* the messages of the request and the result of the call
ResultOf(bm) == IF bm = NoSchema THEN Str("text") ELSE <<bm, "p_ok">>
ArchiveEntries(bm) ==
    {<<"system", PersonaContent>>, <<"user", <<"prompt">>>>, <<"system", ResultOf(bm)>>}
\* messages.py:37-71: one add_message call
AddMessage ==
    /\ SumLen(archive, Buckets) < MaxEntries
    /\ \E bm \in Schemas \cup {NoSchema} : \E e \in ArchiveEntries(bm) :
          archive' = add_message(archive, e[1], e[2], bm)
    /\ UNCHANGED <<pc, base_model, env, max_tries, messages, chat, attempt, result,
                   outcome, error, requests, callArchive, run>>
NextArchive == AddMessage
\* the module-level lists of messages.py under any sequence of add_message calls
SpecArchive == Init /\ [][NextArchive]_vars

\* -------------------------------------------- the evaluation schemas on their own
\* largest integer score a payload carries
MaxScore == 4
\* evaluation_models.py:17-112, the evaluation schemas
EvaluationModels ==
    {"EvaluationQuestionModel", "EvaluationChecklistModel", "EvaluationRequirementModel"}
\* the int fields of each class (every one of them "int = Field(..., description=...)")
ScoreFields(m) ==
    CASE m = "EvaluationQuestionModel" ->
             {"traceability", "correctness", "redundancy", "applicability"}
      [] m = "EvaluationChecklistModel" -> {"applicability", "consistency"}
      [] m = "EvaluationRequirementModel" -> {"traceability", "completeness"}
\* the JSON values a payload gives a score: an integer, the string "2", null
JsonScores == {<<"int", n>> : n \in 0..MaxScore} \cup {<<"str", "2">>, <<"null">>}
\* a JSON payload: a value for every score, and whether every *_notes field is
\* there with a string
EvaluationPayloads(m) == [scores : [ScoreFields(m) -> JsonScores], notes : BOOLEAN]
\* pydantic's validation of an int field without constraint: an integer is taken as
\* it is, a string of digits is converted, anything else is an error (None here)
IntField(v) ==
    IF v[1] = "int" THEN v[2]
    ELSE IF v = <<"str", "2">> THEN 2
    ELSE -1
IntFieldOk(v) == v[1] = "int" \/ v = <<"str", "2">>
\* send_prompt.py:28-45 for an evaluation schema: base_model.model_validate_json(payload),
\* None when pydantic raises
validate_evaluation(payload, m) ==
    IF payload.notes /\ \A f \in ScoreFields(m) : IntFieldOk(payload.scores[f])
    THEN <<m, [f \in ScoreFields(m) |-> IntField(payload.scores[f])]>>
    ELSE NoneVal
\* ---- saved models (utils/save_models.py) ----
\* file names below models_saved/
FileNames == {"A checklist", "B checklist"}
\* no file of that name
Missing == <<"missing">>
\* models_saved/ before anything was saved
NoModelsSaved == [n \in FileNames |-> Missing]
\* a dump that leaves the notes fields out
model_dumpScoresOnly(model) == [scores |-> model[2], notes |-> FALSE]
\* BaseModel.model_dump(): the dict of the field values, python ints for the scores,
\* every notes field present as a str
model_dump(model) == [scores |-> model[2], notes |-> TRUE]
\* json.dumps of such a dict: every python int becomes a JSON number
json_dumps(d) == [scores |-> [f \in DOMAIN d.scores |-> <<"int", d.scores[f]>>], notes |-> d.notes]
\* save_models.py:16-32: the pickled model_dump() replaces the file of that name
save_models(saved, file_name, model) ==
    [saved EXCEPT ![file_name] = <<"pickle", model_dump(model)>>]
\* save_models.py:35-59: None without a file, else the unpickled dict goes through
\* json.dumps and base_model.model_validate_json
load_models(saved, file_name, bm) ==
    IF saved[file_name] = Missing
    THEN NoneVal
    ELSE validate_evaluation(json_dumps(saved[file_name][2]), bm)
\* one validation of one payload
ValidateEvaluation ==
    /\ pc = "idle" /\ chat = <<>>
    /\ \E m \in EvaluationModels : \E payload \in EvaluationPayloads(m) :
          /\ base_model' = m
          /\ chat' = <<[content |-> NoneVal,
                        tool_calls |-> <<[name |-> m, arguments |-> payload]>>]>>
          /\ result' = validate_evaluation(payload, m)
    /\ UNCHANGED <<pc, env, max_tries, messages, attempt, outcome, error, requests,
                   archive, callArchive, run>>
NextValidate == ValidateEvaluation
\* validate_response_with_model applied to the payloads of the evaluation schemas
SpecValidate == Init /\ [][NextValidate]_vars

\* ------------------------------------------------------- the run of main.py
\* most work products of the input data
MaxWorkProducts == 2
\* dataframe['Work Product'].unique(), in the order of the loops
WorkProducts == 1..MaxWorkProducts
\* os.getenv of a flag: None ("unset") or its string
EnvFlags == {"unset", "true", "false", "yes"}
\* what the loop of the phase does after the iteration of work product w
AfterIteration(r, w, lastPhase) ==
    IF w = MaxWorkProducts
    THEN [r EXCEPT !.phase = lastPhase, !.wp = 1]
    ELSE [r EXCEPT !.wp = w + 1]
\* main.py:22-44 up to the first loop: the flags of the environment and the files
\* models_saved/<work product> context.pkl and <work product> checklist.pkl, each
\* absent ("none"), of an earlier run ("old") or, later, written by this run
\* ("new"); gen_context runs only when ADD_WP_CONTEXT is "true"
RunStarts ==
    {[phase |-> IF add = "true" THEN "context" ELSE "checklists",
      wp |-> 1,
      ADD_WP_CONTEXT |-> add, NEW_CONTEXT |-> nctx, NEW_CHECKLISTS |-> nchk,
      contexts |-> ctx, checklists |-> chk,
      prompted |-> {}, skipped |-> {}, failed |-> {}] :
        add \in {"unset", "true"}, nctx \in EnvFlags, nchk \in EnvFlags,
        ctx \in [WorkProducts -> {"none", "old"}],
        chk \in [WorkProducts -> {"none", "old"}]}
InitRun ==
    /\ InitCall
    /\ run \in RunStarts
\* a context that is reused unless NEW_CONTEXT is "true"
ContextReusedUnlessTrue(r, w) == r.NEW_CONTEXT # "true" /\ r.contexts[w] # "none"
\* gen_context.py:65-70: NEW_CONTEXT is "false" and load_models returns a model
ContextReused(r, w) == r.NEW_CONTEXT = "false" /\ r.contexts[w] # "none"
\* a checklist that is reused whatever NEW_CHECKLISTS says
ChecklistReusedAlways(r, w) == r.checklists[w] # "none"
\* gen_checklist.py:39-44: NEW_CHECKLISTS is not "true" and load_models returns a model
ChecklistReused(r, w) == r.NEW_CHECKLISTS # "true" /\ r.checklists[w] # "none"
\* gen_context.py:60-86, one iteration: the saved context is loaded and reused when
\* NEW_CONTEXT is "false" and load_models finds it; otherwise filter_concepts and
\* gen_description call send_prompt, and the context is saved when they all return.
\* No try/except: a send_prompt that raises ends gen_context and main.
GenContext ==
    /\ run.phase = "context"
    /\ LET w == run.wp
           unit == <<"context", w>>
       IN  IF ContextReused(run, w)
           THEN run' = AfterIteration([run EXCEPT !.skipped = @ \cup {unit}], w, "checklists")
           ELSE \/ run' = AfterIteration([run EXCEPT !.prompted = @ \cup {unit},
                                                     !.contexts[w] = "new"], w, "checklists")
                \/ run' = [run EXCEPT !.prompted = @ \cup {unit},
                                      !.failed = @ \cup {unit},
                                      !.phase = "crashed"]
    /\ UNCHANGED <<pc, base_model, env, max_tries, messages, chat, attempt, result,
                   outcome, error, requests, archive, callArchive>>
\* gen_checklist.py:38-65, one iteration: unless NEW_CHECKLISTS is "true" the saved
\* checklist is loaded, and the work product is skipped when load_models finds it;
\* otherwise generate_wp_checklist calls send_prompt and the checklist is saved
\* when it returns. No try/except: a send_prompt that raises ends the loop and main.
GenerateChecklist ==
    /\ run.phase = "checklists"
    /\ LET w == run.wp
           unit == <<"checklist", w>>
       IN  IF ChecklistReused(run, w)
           THEN run' = AfterIteration([run EXCEPT !.skipped = @ \cup {unit}], w, "finished")
           ELSE \/ run' = AfterIteration([run EXCEPT !.prompted = @ \cup {unit},
                                                     !.checklists[w] = "new"], w, "finished")
                \/ run' = [run EXCEPT !.prompted = @ \cup {unit},
                                      !.failed = @ \cup {unit},
                                      !.phase = "crashed"]
    /\ UNCHANGED <<pc, base_model, env, max_tries, messages, chat, attempt, result,
                   outcome, error, requests, archive, callArchive>>
NextRun == GenContext \/ GenerateChecklist
SpecRun == InitRun /\ [][NextRun]_vars

\* ------------------------------------------------------------- observations
HasSchema == base_model # NoSchema
Ended == pc = "done"
IsGuidance(m) == MessageOk(m) /\ m.role = "system" /\ m.content[1] = "guidance"
\* the corrective messages on a message list
CorrectiveCount(msgs) == Cardinality({i \in 1..Len(msgs) : IsGuidance(msgs[i])})
\* the entries this call has put into the archive lists
ArchivedByCall == SumLen(archive, Buckets) - SumLen(callArchive, Buckets)

TypeOK ==
    /\ pc \in {"idle", "first", "retry", "done"}
    /\ outcome \in {"none", "returned", "raised"}
    /\ attempt \in 0..MaxTries
    /\ Len(requests) <= MaxTries + 1

\* ------------------------------------------------------------------- claims
\* a list with an entry that lacks 'role' or 'content'
LacksRoleOrContent(msgs) ==
    \E i \in 1..Len(msgs) : ~({"role", "content"} \subseteq DOMAIN msgs[i])
\* the first reply has come and no retry has been made yet
FirstReplyIn == Len(requests) = 1 /\ chat # <<>>
\* the first reply's first tool call carries a payload that conforms to the schema
FirstPayloadValid ==
    /\ HasSchema
    /\ FirstReplyIn
    /\ Len(chat[1].tool_calls) > 0
    /\ Validates(chat[1].tool_calls[1].arguments, base_model)
\* the first attempt failed validation and the guidance has been appended
AfterFirstFailure ==
    /\ HasSchema
    /\ FirstReplyIn
    /\ pc = "retry" \/ error = ExhaustedRetriesError
LastMessage == messages[Len(messages)]
\* a guidance text g quotes x as what was generated before
HasPrevious(g, x) == \E i \in 1..(Len(g) - 1) : g[i] = "previous" /\ g[i + 1] = x
HasSchemaPart(g, bm) == \E i \in 1..(Len(g) - 1) : g[i] = "schema" /\ g[i + 1] = bm
\* what a reply holds: its text (when there is one) and the payloads of its tool calls
Outputs(reply) ==
    (IF Truthy(reply.content) THEN {reply.content[2]} ELSE {})
      \cup {reply.tool_calls[i].arguments : i \in 1..Len(reply.tool_calls)}
\* the requests of this call that the archive lists hold: every stored request
\* begins with the persona entry
RECURSIVE PersonaEntries(_, _)
PersonaEntries(arch, bs) ==
    IF bs = {} THEN 0
    ELSE LET b == CHOOSE x \in bs : TRUE
         IN  Cardinality({i \in 1..Len(arch.buckets[b]) :
                            arch.buckets[b][i] = <<"system", PersonaContent>>})
               + PersonaEntries(arch, bs \ {b})
ArchivedAttempts == PersonaEntries(archive, Buckets) - PersonaEntries(callArchive, Buckets)

\* C1: a call with a schema that has ended either raised, or returned the value of
\* a payload of the last reply that validates against a schema advertised for the
\* call (the schema itself or, in the extraction family, NoInfoModel); it never
\* returned None, raw text or a payload that did not validate.
C1_ValidatedOrRaised ==
    (HasSchema /\ Ended) =>
        \/ outcome = "raised" /\ result = NoneVal
        \/ /\ outcome = "returned"
           /\ \E m \in tools(base_model), i \in 1..Len(chat[1].tool_calls) :
                 /\ Validates(chat[1].tool_calls[i].arguments, m)
                 /\ result = <<m, chat[1].tool_calls[i].arguments>>
\* a value returned at the last retry
C1_Witness ==
    /\ HasSchema /\ Ended /\ outcome = "returned"
    /\ Len(requests) = MaxTries + 1
    /\ result = <<base_model, "p_ok">>

\* C2: with a schema and max_tries >= 0, while every attempt fails validation the
\* loop goes on until max_tries + 1 requests have been issued: a pending retry means
\* fewer than max_tries + 1 requests so far (one per attempt made), and the
\* exhausted-retries error is raised after exactly max_tries + 1 requests.
C2_ExactlyMaxTriesRetries ==
    (HasSchema /\ env # <<>> /\ max_tries >= 0) =>
        /\ pc = "retry" => (attempt < max_tries /\ Len(requests) = attempt + 1)
        /\ error = ExhaustedRetriesError => Len(requests) = max_tries + 1
C2_Witness ==
    /\ HasSchema /\ error = ExhaustedRetriesError
    /\ max_tries = MaxTries /\ Len(requests) = MaxTries + 1

C4_MalformedFailsBeforeRequest ==
    LacksRoleOrContent(messages) =>
        /\ requests = <<>>
        /\ Ended /\ outcome = "raised"
        /\ env # <<>> => error = MalformedMessageError
C4_Witness ==
    /\ LacksRoleOrContent(messages) /\ HasSchema
    /\ Ended /\ error = MalformedMessageError /\ requests = <<>>

NoInfoSelected(tool_calls) ==
    \E i \in 1..Len(tool_calls) :
        /\ tool_calls[i].name = NoInfoModel
        /\ \A j \in 1..(i - 1) : tool_calls[j].name # NoInfoModel
        /\ tool_calls[i].arguments \in {"n_true", "n_false"}
C6_AttemptKCarriesK ==
    \A k \in 1..Len(requests) : CorrectiveCount(requests[k]) = k - 1
\* C6 amended: one corrective system message is appended after the first failed
\* attempt and none after a later one: the first request carries none, the request
\* of every attempt k >= 1 carries exactly one, as its last message.
C6_RetriesCarryOneGuidance ==
    \A k \in 1..Len(requests) :
        IF k = 1 THEN CorrectiveCount(requests[k]) = 0
        ELSE /\ CorrectiveCount(requests[k]) = 1
             /\ IsGuidance(requests[k][Len(requests[k])])
             /\ requests[k] = requests[2]
C6_Witness ==
    /\ Len(requests) = 3
    /\ CorrectiveCount(requests[2]) = 1 /\ CorrectiveCount(requests[3]) = 1

\* C7: a call that ends in the exhausted-retries error has appended nothing after its
\* last request: the conversation is the message list of that request (with
\* max_tries = 0, the list of the first request, without corrective message).
C7_NoGuidanceWithoutRetry ==
    (error = ExhaustedRetriesError /\ max_tries >= 0) =>
        CorrectiveCount(messages) = CorrectiveCount(requests[Len(requests)])

\* C8 as stated: after a failed first attempt that produced any output, the corrective
\* message holds the schema and quotes that output (the text or a payload).
C8_GuidanceQuotesBadOutput ==
    (AfterFirstFailure /\ max_tries >= 0) =>
        /\ IsGuidance(LastMessage)
        /\ HasSchemaPart(LastMessage.content, base_model)
        /\ Outputs(chat[1]) # {} =>
              \E x \in Outputs(chat[1]) : HasPrevious(LastMessage.content, x)
\* C8 amended: the corrective message holds the schema, and it quotes the text of the
\* first reply exactly when that text is not empty; a payload is never quoted.
C8_GuidanceQuotesText ==
    AfterFirstFailure =>
        /\ IsGuidance(LastMessage)
        /\ HasSchemaPart(LastMessage.content, base_model)
        /\ IF Truthy(chat[1].content)
           THEN HasPrevious(LastMessage.content, chat[1].content[2])
           ELSE \A i \in 1..Len(LastMessage.content) : LastMessage.content[i] # "previous"
        /\ \A p \in Payloads : ~HasPrevious(LastMessage.content, p)
C8_Witness ==
    /\ AfterFirstFailure /\ pc = "retry"
    /\ Len(chat[1].tool_calls) > 0
    /\ HasPrevious(LastMessage.content, "text")

\* C9: a call without a schema never enters the retry loop: at most one request, no
\* corrective message, and once the reply is in the call has returned its text as it is.
C9_NoSchemaBypassesRetry ==
    (~HasSchema /\ pc # "idle") =>
        /\ pc # "retry"
        /\ Len(requests) <= 1
        /\ CorrectiveCount(messages) = 0
        /\ chat # <<>> =>
              /\ Ended /\ outcome = "returned"
              /\ Len(requests) = 1
              /\ result = chat[1].content
              /\ messages = requests[1]
C9_Witness ==
    /\ ~HasSchema /\ Ended /\ outcome = "returned"
    /\ Len(requests) = 1 /\ result = Str("text")

\* C10: a call without a schema whose reply has no text (None or "") and no tool call
\* ends in an error.
C10_NoTextRaises ==
    (~HasSchema /\ max_tries >= 0 /\ chat # <<>>
       /\ ~Truthy(chat[1].content) /\ chat[1].tool_calls = <<>>) =>
        (Ended /\ outcome = "raised")

\* the last reply carries a text and at least one tool call, for a call with a schema
TextAndToolCalls ==
    /\ HasSchema
    /\ chat # <<>>
    /\ Truthy(chat[1].content)
    /\ Len(chat[1].tool_calls) > 0
\* C11 as stated: for a reply with text and tool calls the first declared tool call
\* alone decides: the attempt succeeds exactly when its payload conforms to the
\* schema, and the value returned is the value of that payload.
C11_FirstToolCallDecides ==
    (TextAndToolCalls /\ max_tries >= 0) =>
        /\ outcome = "returned" <=>
              Validates(chat[1].tool_calls[1].arguments, base_model)
        /\ outcome = "returned" =>
              result = <<base_model, chat[1].tool_calls[1].arguments>>
\* C11 amended: the text never decides; without a schema of the extraction family
\* the first declared tool call alone decides; in the extraction family the first
\* tool call named NoInfoModel, wherever it stands, decides when its payload is
\* well formed, and the first declared tool call decides otherwise.
C11_NoInfoCallThenFirstToolCall ==
    TextAndToolCalls =>
        LET calls == chat[1].tool_calls
            noInfo == base_model \in IsoModels /\ NoInfoSelected(calls)
        IN  /\ result # chat[1].content
            /\ outcome = "returned" <=>
                  (noInfo \/ Validates(calls[1].arguments, base_model))
            /\ (outcome = "returned" /\ ~noInfo) =>
                  result = <<base_model, calls[1].arguments>>
            /\ (outcome = "returned" /\ noInfo) =>
                  \E i \in 1..Len(calls) :
                      /\ calls[i].name = NoInfoModel
                      /\ \A j \in 1..(i - 1) : calls[j].name # NoInfoModel
                      /\ result = <<NoInfoModel, calls[i].arguments>>
\* a later NoInfoModel call decides after a first tool call that does not conform
C11_Witness ==
    /\ TextAndToolCalls /\ outcome = "returned"
    /\ Len(chat[1].tool_calls) = 2
    /\ chat[1].tool_calls[1] = [name |-> base_model, arguments |-> "bad"]
    /\ chat[1].tool_calls[2].name = NoInfoModel
    /\ result = <<NoInfoModel, "n_true">>

\* the last reply of a call for an extraction-family schema selects NoInfoModel with
\* a well-formed payload (its first tool call named NoInfoModel carries one)
NoInfoReply ==
    /\ HasSchema
    /\ base_model \in IsoModels
    /\ chat # <<>>
    /\ NoInfoSelected(chat[1].tool_calls)
\* C12: for an extraction-family schema, a reply that selects NoInfoModel with a
\* well-formed payload ends the call at that attempt: a NoInfoModel value is
\* returned, the conversation of that request and the entry "Nothing found" are
\* archived, no retry is pending, no corrective message is appended after the
\* request and the exhausted-retries error is not raised.
C12_NoInfoIsSuccess ==
    NoInfoReply =>
        LET bucket == archive.buckets["messages_content_segmentation"]
            sent == requests[Len(requests)]
        IN  /\ Ended /\ outcome = "returned" /\ error = "none"
            /\ result[1] = NoInfoModel
            /\ result[2] \in {"n_true", "n_false"}
            /\ messages = sent
            /\ ArchivedByCall = Len(sent) + 1
            /\ bucket[Len(bucket)] = <<"system", <<"Nothing found">>>>
            /\ \A i \in 1..Len(sent) :
                  bucket[Len(callArchive.buckets["messages_content_segmentation"]) + i]
                    = <<sent[i].role, sent[i].content>>
\* the NoInfoModel reply comes at the first retry
C12_Witness ==
    /\ NoInfoReply /\ Ended /\ outcome = "returned"
    /\ Len(requests) = 2
    /\ chat[1].tool_calls[1].name = NoInfoModel
    /\ result = <<NoInfoModel, "n_true">>

\* C13: once a remote request has raised a transport/service error the call has
\* ended with that error and nothing returned, and the failed request is its last
\* one: the requests issued are the replies received plus that one (the first
\* request when no reply has come, else the failed passes of the loop plus two).
C13_TransportErrorNotRetried ==
    error = RemoteInvocationError =>
        /\ Ended /\ outcome = "raised" /\ result = NoneVal
        /\ Len(requests) = IF chat = <<>> THEN 1 ELSE attempt + 2
        /\ messages = requests[Len(requests)]
\* a transport error at the last retry
C13_Witness ==
    /\ error = RemoteInvocationError /\ Ended
    /\ chat # <<>> /\ Len(requests) = MaxTries + 1

\* the category of the call, and the bucket and the file that category owns
CallCategory == IF HasSchema THEN classify_basemodel(base_model) ELSE "unclassified"
CategoryBucket(c) ==
    CASE c = "checklist_generation" -> "messages_checklist_generation"
      [] c = "content_segmentation" -> "messages_content_segmentation"
      [] c = "context_generation" -> "messages_context_generation"
      [] c = "evaluation" -> "messages_evaluation"
      [] c = "unclassified" -> "messages_unclassified"
CategoryFile(c) == <<CategoryBucket(c), c>>
\* C14: the entries a call archives go to the bucket and the file of the category of
\* its schema and nowhere else: after a call that returned, that bucket has grown by
\* the entries of the call, no other bucket has changed, and the only file written is
\* the file of that category, in the folder of that category.
C14_ArchivePartitioned ==
    (Ended /\ outcome = "returned" /\ max_tries >= 0) =>
        /\ Len(archive.buckets[CategoryBucket(CallCategory)])
             = Len(callArchive.buckets[CategoryBucket(CallCategory)]) + ArchivedByCall
        /\ \A b \in Buckets \ {CategoryBucket(CallCategory)} :
              archive.buckets[b] = callArchive.buckets[b]
        /\ \A f \in Files :
              archive.files[f] # callArchive.files[f] => f = CategoryFile(CallCategory)

\* C15: every transcript file that has been written holds the rendering of the whole
\* list it was rendered from, as that list is now (the list a file is rendered from
\* is the one its folder is named after).
C15_FilesNeverBehind ==
    \A f \in Files :
        archive.files[f] # <<>> =>
            archive.files[f] = <<RenderAll(archive.buckets[f[1]])>>

\* a call with a schema and one caller message whose first reply validated
OneMessageFirstSuccess ==
    /\ HasSchema
    /\ Len(requests) = 1
    /\ Len(requests[1]) = 2
    /\ Ended /\ outcome = "returned"
\* C16 as stated: such a call adds exactly 2 entries to the archive.
C16_TwoNewEntries ==
    (OneMessageFirstSuccess /\ max_tries >= 0) => ArchivedByCall = 2
\* C16 amended: such a call adds exactly 3 entries to the archive, to one list: the
\* persona message, the caller's message and the result (the value returned, or
\* "Nothing found" for a NoInfoModel value), in that order.
C16_ThreeNewEntries ==
    OneMessageFirstSuccess =>
        /\ ArchivedByCall = 3
        /\ \E b \in Buckets :
              archive.buckets[b] =
                  callArchive.buckets[b]
                    \o << <<"system", PersonaContent>>,
                          <<requests[1][2].role, requests[1][2].content>>,
                          <<"system", IF result[1] = NoInfoModel
                                      THEN <<"Nothing found">> ELSE result>> >>
C16_Witness ==
    /\ OneMessageFirstSuccess
    /\ result = <<base_model, "p_ok">>
    /\ ArchivedByCall = 3

\* an archive list holds a corrective guidance message
GuidanceArchived(arch) ==
    \E b \in Buckets : \E i \in 1..Len(arch.buckets[b]) :
        /\ arch.buckets[b][i][1] = "system"
        /\ arch.buckets[b][i][2][1] = "guidance"
\* the step of the first retry: the first reply had no tool call, and the reply to
\* the second request carries a first tool call whose payload conforms to the schema
SecondReplyValidAfterNoToolCall ==
    /\ HasSchema
    /\ pc = "retry" /\ Len(requests) = 1
    /\ chat # <<>> /\ chat[1].tool_calls = <<>>
    /\ chat' # <<>> /\ Len(chat'[1].tool_calls) > 0
    /\ Validates(chat'[1].tool_calls[1].arguments, base_model)
\* C17: when the first reply to a call with a schema has no tool call and the reply
\* to the second request carries a valid payload, that step ends the call with a
\* returned value after two requests, and the entries it archives (nothing was
\* archived before) hold the corrective guidance message.
C17_SucceedsAtFirstRetry ==
    [][SecondReplyValidAfterNoToolCall =>
          /\ pc' = "done" /\ outcome' = "returned" /\ error' = "none"
          /\ result'[1] \in tools(base_model)
          /\ Len(requests') = 2
          /\ IsGuidance(requests'[2][Len(requests'[2])])
          /\ archive = callArchive
          /\ GuidanceArchived(archive')]_vars
\* a call that succeeded at the first retry, after a first reply without text, with
\* the corrective message among its archived entries
C17_Witness ==
    /\ HasSchema /\ Ended /\ outcome = "returned"
    /\ Len(requests) = 2
    /\ result = <<base_model, "p_ok">>
    /\ GuidanceArchived(archive)
    /\ ~HasPrevious(LastMessage.content, "text")

\* an archive entry that records a result: a validated value or "Nothing found"
ResultEntry(e) ==
    /\ e[1] = "system"
    /\ \/ e[2] = <<"Nothing found">>
       \/ e[2][1] \in Schemas \cup {NoInfoModel}
\* the result entries among the entries added since the call began
ResultsRecorded ==
    UNION {{<<b, i>> : i \in {j \in 1..Len(archive.buckets[b]) :
                                  /\ j > Len(callArchive.buckets[b])
                                  /\ ResultEntry(archive.buckets[b][j])}} : b \in Buckets}
\* C18: with a schema and max_tries >= 0, once the reply to request max_tries + 1 has
\* failed validation as every reply before it, the call has ended in the
\* exhausted-retries error; and a call that ended in that error has recorded no
\* result entry in the archive.
C18_ExhaustedRecordsNoSuccess ==
    /\ (HasSchema /\ max_tries >= 0 /\ Len(requests) = max_tries + 1 /\ chat # <<>>
          /\ outcome # "returned" /\ error # RemoteInvocationError) =>
            (Ended /\ outcome = "raised" /\ error = ExhaustedRetriesError)
    /\ error = ExhaustedRetriesError =>
            (HasSchema /\ result = NoneVal /\ ResultsRecorded = {})
\* every reply carried a payload that does not conform, up to the last retry
C18_Witness ==
    /\ HasSchema /\ error = ExhaustedRetriesError
    /\ max_tries = MaxTries /\ Len(requests) = MaxTries + 1
    /\ Len(chat[1].tool_calls) > 0
    /\ chat[1].tool_calls[1].arguments = "bad"
    /\ ResultsRecorded = {}

\* the persona messages on a message list
PersonaCount(msgs) ==
    Cardinality({i \in 1..Len(msgs) :
                   msgs[i] = [role |-> "system", content |-> <<"prompt_system_role">>]})
\* C19: every request of the call carries a list that starts with the persona
\* system message and holds it once (the caller's list holds none: the call has
\* inserted it exactly once), and every later request begins with the whole list of
\* the first one.
C19_PersonaFirstAndOnce ==
    \A k \in 1..Len(requests) :
        /\ Len(requests[k]) >= 1
        /\ requests[k][1] = [role |-> "system", content |-> <<"prompt_system_role">>]
        /\ PersonaCount(requests[k]) = 1
        /\ SubSeq(requests[k], 1, Len(requests[1])) = requests[1]
\* the first request and two retries of a call with one caller message
C19_Witness ==
    /\ Len(requests) = 3
    /\ Len(requests[1]) = 2
    /\ PersonaCount(requests[3]) = 1
    /\ requests[3][1].role = "system"

\* C20: a call made while MAX_TRIES_STRUCTURED_OUTPUT is unset still runs: it does
\* not end in the configuration error, and it gets past the configuration with a
\* max_tries that is a small constant (zero or more).
C20_UnsetUsesDefault ==
    (pc # "idle" /\ env = <<>>) =>
        /\ error # ConfigError
        /\ max_tries >= 0
        /\ ~LacksRoleOrContent(messages) => (pc # "done" \/ requests # <<>>)

\* a score of the validated payload lies outside 1..3
ScoreOutOfRange ==
    \E f \in ScoreFields(base_model) :
        LET v == chat[1].tool_calls[1].arguments.scores[f]
        IN  IntFieldOk(v) /\ IntField(v) \notin 1..3
\* C21: a payload of an evaluation schema with a score outside 1..3 fails validation
\* (None is returned), and every value validation returns has all its scores in 1..3.
C21_ScoresWithinOneToThree ==
    (chat # <<>> /\ base_model \in EvaluationModels) =>
        /\ ScoreOutOfRange => result = NoneVal
        /\ result # NoneVal => \A f \in ScoreFields(base_model) : result[2][f] \in 1..3

\* list s is the beginning of list t
IsPrefix(s, t) == Len(s) <= Len(t) /\ SubSeq(t, 1, Len(s)) = s
\* C22: every step leaves every archive list with the list before the step as its
\* beginning: no entry is removed, changed or moved, entries are only added at the end.
C22_BucketsAppendOnly ==
    [][\A b \in Buckets : IsPrefix(archive.buckets[b], archive'.buckets[b])]_vars
\* a list that has grown three times, with entries of two classifications
C22_Witness ==
    /\ Len(archive.buckets["messages_unclassified"]) = 3
    /\ archive.files[<<"messages_unclassified", "evaluation">>] # <<>>
    /\ archive.files[<<"messages_unclassified", "unclassified">>] # <<>>
    /\ archive.buckets["messages_unclassified"][1] # archive.buckets["messages_unclassified"][3]

\* the run is over: main has returned or an exception has left it
RunOver == run.phase \in {"finished", "crashed"}
\* C23: when the run is over, every checklist whose generation did not fail has been
\* dealt with: the work products after a failed one have been processed (their
\* checklist generated, or found on disk and kept), only the failed one is missing.
C23_OnlyFailedUnitMissing ==
    RunOver =>
        \A w \in WorkProducts :
            <<"checklist", w>> \notin run.failed =>
                <<"checklist", w>> \in run.prompted \cup run.skipped

\* the iteration of generate_checklists for a work product with a saved checklist
SavedChecklistStep ==
    /\ run.phase = "checklists"
    /\ run' # run
    /\ run.checklists[run.wp] = "old"
\* C24: the iteration of generate_checklists for a work product that has a saved
\* checklist, when NEW_CHECKLISTS is not "true", calls send_prompt for nothing of
\* that work product (no remote request) and leaves the saved checklist as it is;
\* when NEW_CHECKLISTS is "true" it calls send_prompt and, unless send_prompt raises,
\* saves the new checklist over the old one.
C24_SavedChecklistSkipped ==
    [][SavedChecklistStep =>
          LET unit == <<"checklist", run.wp>>
          IN  IF run.NEW_CHECKLISTS # "true"
              THEN /\ unit \in run'.skipped
                   /\ run'.prompted = run.prompted
                   /\ run'.checklists = run.checklists
                   /\ run'.phase # "crashed"
              ELSE /\ unit \in run'.prompted
                   /\ unit \notin run'.skipped
                   /\ \/ run'.checklists[run.wp] = "new"
                      \/ unit \in run'.failed /\ run'.checklists = run.checklists]_vars
\* one saved checklist was kept without a request, another was generated
C24_Witness ==
    /\ run.phase = "finished"
    /\ run.NEW_CHECKLISTS = "unset"
    /\ <<"checklist", 1>> \in run.skipped /\ <<"checklist", 1>> \notin run.prompted
    /\ run.checklists[1] = "old"
    /\ run.checklists[MaxWorkProducts] = "new"

RequestBound == (IF max_tries < 0 THEN 0 ELSE max_tries) + 1
\* C26: when every request returns or fails, a call of send_prompt that has started
\* ends (it returns or raises); on the way it never issues more than max_tries + 1
\* requests, and with max_tries < 0 it issues at most one request and never enters
\* the retry loop, as with max_tries = 0.
C26_TerminatesWithinBound ==
    /\ [](Len(requests) <= RequestBound)
    /\ []((max_tries <= 0 /\ pc # "idle") => (pc # "retry" /\ attempt = 0))
    /\ (pc \in {"first", "retry"}) ~> Ended
\* a call with a negative max_tries that ended after its only request failed
C26_Witness ==
    /\ Ended
    /\ HasSchema
    /\ max_tries < 0
    /\ Len(requests) = RequestBound
    /\ error = ExhaustedRetriesError

\* a call that ended with a value for its caller
Succeeded == Ended /\ outcome = "returned" /\ Truthy(result)
\* the request that was answered last
LastRequest == requests[Len(requests)]
\* C27: after a call that returned a value, the entries the call has appended are,
\* in one list and in this order, the messages of the request that succeeded (the
\* persona first, the caller's messages, the corrective message when a retry
\* preceded) and then one result entry; no other list has changed, so the messages
\* of the failed attempts are not archived a second time.
C27_SuccessArchivesItsRequest ==
    Succeeded =>
        LET expected ==
                [i \in 1..Len(LastRequest) |-> <<LastRequest[i].role, LastRequest[i].content>>]
                  \o << <<"system", IF result[1] = NoInfoModel
                                    THEN <<"Nothing found">> ELSE result>> >>
        IN  /\ LastRequest[1] = PersonaMessage
            /\ LastRequest = messages
            /\ \E b \in Buckets :
                  /\ archive.buckets[b] = callArchive.buckets[b] \o expected
                  /\ \A o \in Buckets \ {b} : archive.buckets[o] = callArchive.buckets[o]
\* a call that succeeded at its last retry: persona, caller message, corrective
\* message and result were archived, once
C27_Witness ==
    /\ Succeeded /\ HasSchema
    /\ max_tries = MaxTries /\ Len(requests) = MaxTries + 1
    /\ IsGuidance(LastRequest[Len(LastRequest)])
    /\ ArchivedByCall = Len(LastRequest) + 1

\* the four exceptions a call ends with
TerminalErrors ==
    {ConfigError, MalformedMessageError, RemoteInvocationError, ExhaustedRetriesError}
\* C28: a call that raised, whatever the error (missing configuration, malformed
\* message, remote invocation error, retries exhausted), has left every archive
\* list and every archive file as they were when the call began, and has handed
\* no value to its caller.
C28_RaiseLeavesArchive ==
    (Ended /\ outcome = "raised") =>
        /\ error \in TerminalErrors
        /\ result = NoneVal
        /\ \A b \in Buckets : archive.buckets[b] = callArchive.buckets[b]
        /\ \A f \in Files : archive.files[f] = callArchive.files[f]
\* a remote invocation error at the last retry of a call with a schema, after
\* replies that failed validation: nothing of the call is in the archive
C28_Witness ==
    /\ Ended /\ outcome = "raised" /\ HasSchema
    /\ error = RemoteInvocationError
    /\ max_tries = MaxTries /\ Len(requests) = MaxTries + 1
    /\ chat # <<>> /\ Len(chat[1].tool_calls) > 0
    /\ ArchivedByCall = 0

\* the entries the call has added hold the entry "Nothing found"
NothingFoundArchived ==
    \E b \in Buckets : \E i \in 1..Len(archive.buckets[b]) :
        /\ i > Len(callArchive.buckets[b])
        /\ archive.buckets[b][i] = <<"system", <<"Nothing found">>>>
\* C29: a call returns a NoInfoModel value, and archives "Nothing found", only for
\* a payload that says no_information_found = true.
C29_NothingFoundOnlyWhenTrue ==
    /\ (Ended /\ outcome = "returned" /\ result[1] = NoInfoModel) => result[2] = "n_true"
    /\ NothingFoundArchived =>
          \E i \in 1..Len(chat[1].tool_calls) :
              /\ chat[1].tool_calls[i].name = NoInfoModel
              /\ chat[1].tool_calls[i].arguments = "n_true"

\* the iteration of gen_context for one work product
ContextStep == run.phase = "context" /\ run' # run
\* C30: the iteration of gen_context for a work product reuses the saved context,
\* with no call of send_prompt and no write, exactly when NEW_CONTEXT is "false" and
\* a saved context exists; in every other case it calls send_prompt and, unless
\* send_prompt raises, saves the new context over whatever was saved. With
\* NEW_CONTEXT and NEW_CHECKLISTS both unset, every context is generated anew while
\* every saved checklist is reused from disk.
C30_ContextReusedOnlyWhenFalse ==
    [][/\ ContextStep =>
             LET unit == <<"context", run.wp>>
             IN  IF run.NEW_CONTEXT = "false" /\ run.contexts[run.wp] = "old"
                 THEN /\ unit \in run'.skipped
                      /\ run'.prompted = run.prompted
                      /\ run'.contexts = run.contexts
                      /\ run'.phase # "crashed"
                 ELSE /\ unit \in run'.prompted
                      /\ unit \notin run'.skipped
                      /\ \/ run'.contexts[run.wp] = "new"
                         \/ unit \in run'.failed /\ run'.contexts = run.contexts
       /\ (run' # run /\ run.phase \in {"context", "checklists"}
             /\ run.NEW_CONTEXT = "unset" /\ run.NEW_CHECKLISTS = "unset") =>
             IF run.phase = "context"
             THEN <<"context", run.wp>> \in run'.prompted
             ELSE run.checklists[run.wp] = "old" =>
                     /\ <<"checklist", run.wp>> \in run'.skipped
                     /\ run'.prompted = run.prompted]_vars
\* with NEW_CONTEXT = "false" one saved context was reused and a missing one was
\* generated and saved
C30_Witness ==
    /\ run.phase = "checklists"
    /\ run.NEW_CONTEXT = "false"
    /\ <<"context", 1>> \in run.skipped /\ <<"context", 1>> \notin run.prompted
    /\ run.contexts[1] = "old"
    /\ <<"context", MaxWorkProducts>> \in run.prompted
    /\ run.contexts[MaxWorkProducts] = "new"
====
